---- MODULE Spec2Model ----
(***************************************************************************)
(* Model of src/src/LineByLineAccessibility.ts: linesOfSpans (the Line     *)
(* Grouper) followed by pagesOfLines (the Page Assigner), as called by     *)
(* analyzeDocument.                                                        *)
(*                                                                         *)
(* Numbers.  Coordinates are integers.  The two infinities of the source   *)
(* are the integers PosInf and NegInf, which lie beyond every finite       *)
(* coordinate of the model, so that <, <=, min and max on them are the     *)
(* integer ones; +, - and floor-division treat them apart (Add, Sub,       *)
(* FloorDiv).                                                              *)
(*                                                                         *)
(* Arrays.  `lines` is a dense JavaScript array, modelled as a sequence    *)
(* (JavaScript index k is sequence index k+1).  `pages` may get holes and  *)
(* non-index properties, so it is a function from its own property keys    *)
(* to Page records together with its `length`.                             *)
(***************************************************************************)
EXTENDS Integers, Sequences, FiniteSets, TLC

(* ---------------- bounds of the model ---------------- *)
MaxSpans == 2
MaxLeft == 2
MaxScrollWidth == 3

Lefts == -1..MaxLeft
Widths == {1, 2}
Tops == {0, 1}
Heights == {1, 2}
InnerWidths == {1, 2}
PageXOffsets == {0, 1}
ScrollWidths == 1..MaxScrollWidth

(* ---------------- numbers ---------------- *)
PosInf == 1000000
NegInf == 0 - PosInf

IsFinite(x) == x # PosInf /\ x # NegInf

\* x + y for a finite y
Add(x, y) == IF IsFinite(x) THEN x + y ELSE x

\* x - y; the two operands are never the same infinity here
Sub(x, y) ==
  IF IsFinite(x) /\ IsFinite(y) THEN x - y
  ELSE IF IsFinite(y) THEN x
  ELSE IF y = PosInf THEN NegInf ELSE PosInf

\* Math.floor(x / w) for a finite w > 0
FloorDiv(x, w) == IF IsFinite(x) THEN x \div w ELSE x

\* Math.ceil(x / w) for finite x and w > 0
CeilDiv(x, w) == 0 - ((0 - x) \div w)

SetMin(S) == CHOOSE m \in S : \A x \in S : m <= x
SetMax(S) == CHOOSE m \in S : \A x \in S : m >= x

(* ---------------- rectangles and spans ---------------- *)
MkRect(l, w, t, h) ==
  [left |-> l, right |-> l + w, top |-> t, bottom |-> t + h,
   width |-> w, height |-> h]

\* What getBoundingClientRect can return for a word span.
SpanRects ==
  {MkRect(l, w, t, h) : l \in Lefts, w \in Widths, t \in Tops, h \in Heights}

\* The word inside the k-th span, (s.firstChild as Text).data
WordAt(k) ==
  CASE k = 1 -> "a" [] k = 2 -> "b" [] k = 3 -> "c" [] k = 4 -> "d"
    [] OTHER -> "e"

\* The initial currentLineClientRect.
EmptyRect ==
  [left |-> PosInf, right |-> NegInf, top |-> PosInf, bottom |-> NegInf,
   width |-> NegInf, height |-> NegInf]

\* clientRectUnion with b.bottom left out of the maximum.
clientRectUnionWithoutBottom(a, b) ==
  LET left == SetMin({a.left, a.right, b.left, b.right})
      right == SetMax({a.left, a.right, b.left, b.right})
      top == SetMin({a.top, a.bottom, b.top, b.bottom})
      bottom == SetMax({a.top, a.bottom, b.top})
  IN [left |-> left, right |-> right, top |-> top, bottom |-> bottom,
      width |-> Sub(right, left), height |-> Sub(bottom, top)]

clientRectUnion(a, b) ==
  LET left == SetMin({a.left, a.right, b.left, b.right})
      right == SetMax({a.left, a.right, b.left, b.right})
      top == SetMin({a.top, a.bottom, b.top, b.bottom})
      bottom == SetMax({a.top, a.bottom, b.top, b.bottom})
  IN [left |-> left, right |-> right, top |-> top, bottom |-> bottom,
      width |-> Sub(right, left), height |-> Sub(bottom, top)]

pageIndexOf(rect, xOffset, width) == FloorDiv(Add(rect.left, xOffset), width)

(* ---------------- text ---------------- *)
RECURSIVE JoinFrom(_, _)
JoinFrom(words, k) ==
  IF k > Len(words) THEN ""
  ELSE IF k = Len(words) THEN words[k]
  ELSE words[k] \o " " \o JoinFrom(words, k + 1)

\* Array.prototype.join(" ")
Join(words) == JoinFrom(words, 1)

SpanTexts(ss) == [k \in 1..Len(ss) |-> ss[k].text]

(* ---------------- state ---------------- *)
VARIABLES
  spans,                  \* the word spans, in document order
  innerWidth,             \* window.innerWidth
  pageXOffset,            \* window.pageXOffset
  pc,                     \* position in analyzeDocument
  next,                   \* number of spans the for-of loop has consumed
  lines,                  \* linesOfSpans: lines
  currentLineIndex,       \* linesOfSpans: currentLineIndex
  currentLineSpans,       \* linesOfSpans: currentLineSpans
  currentLineClientRect,  \* linesOfSpans: currentLineClientRect
  lastBottom,             \* processSpans: lastBottom
  lastLeft,               \* processSpans: lastLeft
  lastPageIndex,          \* processSpans: lastPageIndex
  nextLine,               \* number of lines the loop of pagesOfLines consumed
  pages,                  \* pagesOfLines: pages, property key -> Page
  pagesLength,            \* pagesOfLines: pages.length
  totalPages,             \* pagesOfLines: totalPages (-1 before it is set)
  spanLine,               \* history: index in `lines` each span was put in
  metBackward             \* history: a span had a page index < lastPageIndex

vars ==
  <<spans, innerWidth, pageXOffset, pc, next, lines, currentLineIndex,
    currentLineSpans, currentLineClientRect, lastBottom, lastLeft,
    lastPageIndex, nextLine, pages, pagesLength, totalPages, spanLine,
    metBackward>>

pageIndexOfClientRect(rect) == pageIndexOf(rect, pageXOffset, innerWidth)

SpanSeqs ==
  UNION {[1..n -> SpanRects] : n \in 0..MaxSpans}

Init ==
  /\ \E rs \in SpanSeqs :
       spans = [k \in 1..Len(rs) |-> [rect |-> rs[k], text |-> WordAt(k)]]
  /\ innerWidth \in InnerWidths
  /\ pageXOffset \in PageXOffsets
  /\ pc = "processSpans"
  /\ next = 0
  /\ lines = <<>>
  /\ currentLineIndex = 0
  /\ currentLineSpans = <<>>
  /\ currentLineClientRect = EmptyRect
  /\ lastBottom = NegInf
  /\ lastLeft = NegInf
  /\ lastPageIndex = 0
  /\ nextLine = 0
  /\ pages = <<>>
  /\ pagesLength = 0
  /\ totalPages = -1
  /\ spanLine = <<>>
  /\ metBackward = FALSE

(* ---------------- linesOfSpans ---------------- *)
\* lines[k] = v on a dense array with k <= lines.length
ArraySet(arr, k, v) ==
  IF k < Len(arr) THEN [arr EXCEPT ![k + 1] = v] ELSE Append(arr, v)

\* The variables the three inner functions close over.
Closure ==
  [lines |-> lines, currentLineIndex |-> currentLineIndex,
   currentLineSpans |-> currentLineSpans,
   currentLineClientRect |-> currentLineClientRect]

addCurrentLineToLines(cl) ==
  [cl EXCEPT !.lines =
     ArraySet(cl.lines, cl.currentLineIndex,
              [clientRect |-> cl.currentLineClientRect,
               text |-> Join(SpanTexts(cl.currentLineSpans))])]

beginNextLine(cl, firstSpan, initialClientRect) ==
  [cl EXCEPT !.currentLineIndex = cl.currentLineIndex + 1,
             !.currentLineSpans = <<firstSpan>>,
             !.currentLineClientRect = initialClientRect]

\* continueLine without the push of the span.
continueLineWithoutPush(cl, span, clientRectOfSpan) ==
  [cl EXCEPT !.currentLineClientRect =
                clientRectUnion(cl.currentLineClientRect, clientRectOfSpan)]

continueLine(cl, span, clientRectOfSpan) ==
  [cl EXCEPT !.currentLineSpans = Append(cl.currentLineSpans, span),
             !.currentLineClientRect =
                clientRectUnion(cl.currentLineClientRect, clientRectOfSpan)]

\* newLineIsBeginning with < for <= in the comparison of the lefts.
newLineIsBeginningStrictLeft(rect, prevLeft, prevBottom, onNextPage) ==
  \/ rect.left < prevLeft
  \/ rect.top >= prevBottom
  \/ onNextPage

newLineIsBeginning(rect, prevLeft, prevBottom, onNextPage) ==
  \/ rect.left <= prevLeft
  \/ rect.top >= prevBottom
  \/ onNextPage

\* One iteration of the for-of loop of processSpans.
ProcessSpan ==
  /\ pc = "processSpans"
  /\ next < Len(spans)
  /\ LET span == spans[next + 1]
         rect == span.rect
         onNextPage == pageIndexOfClientRect(rect) > lastPageIndex
         cl == IF newLineIsBeginning(rect, lastLeft, lastBottom, onNextPage)
               THEN beginNextLine(addCurrentLineToLines(Closure), span, rect)
               ELSE continueLine(Closure, span, rect)
     IN /\ lines' = cl.lines
        /\ currentLineIndex' = cl.currentLineIndex
        /\ currentLineSpans' = cl.currentLineSpans
        /\ currentLineClientRect' = cl.currentLineClientRect
        /\ lastBottom' = rect.bottom
        /\ lastLeft' = rect.left
        /\ lastPageIndex' = IF onNextPage THEN lastPageIndex + 1
                            ELSE lastPageIndex
        /\ spanLine' = Append(spanLine, cl.currentLineIndex)
        /\ metBackward' =
             (metBackward \/ pageIndexOfClientRect(rect) < lastPageIndex)
  /\ next' = next + 1
  /\ UNCHANGED <<spans, innerWidth, pageXOffset, pc, nextLine, pages,
                 pagesLength, totalPages>>

\* currentLineSpans !== [] compares the identity of currentLineSpans with
\* that of an array allocated by the literal, which no other reference has.
isNotTheNewArray(arr) == TRUE

\* The end of processSpans and the rest of linesOfSpans.
FinishLines ==
  /\ pc = "processSpans"
  /\ next = Len(spans)
  /\ lines' = IF isNotTheNewArray(currentLineSpans)
              THEN addCurrentLineToLines(Closure).lines
              ELSE lines
  /\ pc' = "pagesOfLines"
  /\ UNCHANGED <<spans, innerWidth, pageXOffset, next, currentLineIndex,
                 currentLineSpans, currentLineClientRect, lastBottom,
                 lastLeft, lastPageIndex, nextLine, pages, pagesLength,
                 totalPages, spanLine, metBackward>>

(* ---------------- pagesOfLines ---------------- *)
\* Keys that are array indices; any other key is an ordinary property.
IsArrayIndex(k) == IsFinite(k) /\ k >= 0

IsUndefined(pgs, k) == k \notin DOMAIN pgs

\* pgs[k] = page
PutPage(pgs, k, page) ==
  [j \in DOMAIN pgs \cup {k} |-> IF j = k THEN page ELSE pgs[j]]

LengthAfterPut(len, k) ==
  IF IsArrayIndex(k) /\ k + 1 > len THEN k + 1 ELSE len

\* One iteration of the first loop of pagesOfLines.
AssignLine ==
  /\ pc = "pagesOfLines"
  /\ nextLine < Len(lines)
  /\ LET line == lines[nextLine + 1]
         index == pageIndexOfClientRect(line.clientRect)
         old == IF IsUndefined(pages, index) THEN [lines |-> <<>>]
                ELSE pages[index]
     IN /\ pages' = PutPage(pages, index,
                            [lines |-> Append(old.lines, line)])
        /\ pagesLength' = LengthAfterPut(pagesLength, index)
  /\ nextLine' = nextLine + 1
  /\ UNCHANGED <<spans, innerWidth, pageXOffset, pc, next, lines,
                 currentLineIndex, currentLineSpans, currentLineClientRect,
                 lastBottom, lastLeft, lastPageIndex, totalPages, spanLine,
                 metBackward>>

\* The second loop of pagesOfLines, for a given totalPages.
FillTo(pgs, total) ==
  [j \in DOMAIN pgs \cup (0..(total - 1)) |->
     IF j \in DOMAIN pgs THEN pgs[j] ELSE [lines |-> <<>>]]

\* The rest of pagesOfLines and the return of analyzeDocument.
FillPages ==
  /\ pc = "pagesOfLines"
  /\ nextLine = Len(lines)
  /\ \E scrollWidth \in ScrollWidths :
       /\ totalPages' = CeilDiv(scrollWidth, innerWidth)
       /\ pages' = FillTo(pages, totalPages')
       /\ pagesLength' =
            IF totalPages' > pagesLength THEN totalPages' ELSE pagesLength
  /\ pc' = "done"
  /\ UNCHANGED <<spans, innerWidth, pageXOffset, next, lines,
                 currentLineIndex, currentLineSpans, currentLineClientRect,
                 lastBottom, lastLeft, lastPageIndex, nextLine, spanLine,
                 metBackward>>

Next == ProcessSpan \/ FinishLines \/ AssignLine \/ FillPages

Spec == Init /\ [][Next]_vars

(* ---------------- notions the properties use ---------------- *)
\* linesOfSpans has returned.
Grouped == pc # "processSpans"

\* analyzeDocument has returned.
Done == pc = "done"

\* The spans put in the line with JavaScript index k, by position in `spans`.
Members(k) == {i \in 1..Len(spanLine) : spanLine[i] = k}

RECURSIVE MemberSeqFrom(_, _)
MemberSeqFrom(k, i) ==
  IF i > Len(spanLine) THEN <<>>
  ELSE IF spanLine[i] = k THEN <<spans[i]>> \o MemberSeqFrom(k, i + 1)
  ELSE MemberSeqFrom(k, i + 1)

\* The same spans, in input order.
MemberSeq(k) == MemberSeqFrom(k, 1)

\* Minimum and maximum, those of the empty set being +Infinity and -Infinity.
MinOf(S) == IF S = {} THEN PosInf ELSE SetMin(S)
MaxOf(S) == IF S = {} THEN NegInf ELSE SetMax(S)

\* ws[1] ws[2] ... ws[n], separated by one space.
RECURSIVE Spaced(_, _)
Spaced(ws, n) ==
  IF n = 0 THEN ""
  ELSE IF n = 1 THEN ws[1]
  ELSE Spaced(ws, n - 1) \o " " \o ws[n]

SpanPage(i) == pageIndexOfClientRect(spans[i].rect)

\* lastPageIndex after the first n spans: one more for each page crossing.
RECURSIVE CrossingsUpTo(_)
CrossingsUpTo(n) ==
  IF n = 0 THEN 0
  ELSE LET before == CrossingsUpTo(n - 1)
       IN IF SpanPage(n) > before THEN before + 1 ELSE before

\* The lines of pages 0 .. length-1 from index k on, one page after another.
RECURSIVE PagesConcatFrom(_)
PagesConcatFrom(k) ==
  IF k >= pagesLength THEN <<>>
  ELSE (IF k \in DOMAIN pages THEN pages[k].lines ELSE <<>>)
         \o PagesConcatFrom(k + 1)

(* ---------------- C1 ---------------- *)
\* C1: the returned pages array has length exactly totalPages and every
\* index 0 .. totalPages-1 holds a Page: no holes and no index beyond.
C1_PagesComplete ==
  Done => /\ pagesLength = totalPages
          /\ \A k \in 0..(totalPages - 1) : k \in DOMAIN pages
          /\ \A k \in 0..(pagesLength - 1) : k \in DOMAIN pages

(* ---------------- C2 ---------------- *)
\* C2: for a non-empty input, every line linesOfSpans returns has at least
\* one span and a finite rectangle; the initial empty line is not returned.
C2_NoPhantomFirstLine ==
  (Grouped /\ spans # <<>>) =>
     \A k \in 1..Len(lines) :
        /\ Members(k - 1) # {}
        /\ IsFinite(lines[k].clientRect.left)
        /\ IsFinite(lines[k].clientRect.right)
        /\ IsFinite(lines[k].clientRect.top)
        /\ IsFinite(lines[k].clientRect.bottom)

(* ---------------- C3 ---------------- *)
\* C3: for an empty input linesOfSpans returns no line: the final
\* addCurrentLineToLines runs only for a line holding a span.
C3_EmptyInputNoLines ==
  (Grouped /\ spans = <<>>) => lines = <<>>

(* ---------------- C4 ---------------- *)
\* The rectangle enclosing exactly the spans in S.
Enclosing(S) ==
  LET left == MinOf({spans[i].rect.left : i \in S})
      right == MaxOf({spans[i].rect.right : i \in S})
      top == MinOf({spans[i].rect.top : i \in S})
      bottom == MaxOf({spans[i].rect.bottom : i \in S})
  IN [left |-> left, right |-> right, top |-> top, bottom |-> bottom,
      width |-> Sub(right, left), height |-> Sub(bottom, top)]

\* C4: the rectangle of every line is the smallest rectangle around the
\* spans of that line: left and top are the minimum, right and bottom the
\* maximum over its members, width = right - left, height = bottom - top
\* (for a line without spans, the minimum is +Infinity, the maximum
\* -Infinity).  The same holds of the line in progress.
C4_UnionCorrectness ==
  /\ \A k \in 1..Len(lines) : lines[k].clientRect = Enclosing(Members(k - 1))
  /\ currentLineClientRect = Enclosing(Members(currentLineIndex))

\* A returned line of two spans whose rectangle is that of neither.
C4_Witness ==
  /\ Done
  /\ \E k \in 1..Len(lines) :
       /\ Cardinality(Members(k - 1)) >= 2
       /\ \A i \in Members(k - 1) : spans[i].rect # lines[k].clientRect

(* ---------------- C5 ---------------- *)
\* C5: the page index of the lines linesOfSpans returns never decreases
\* from one line to the next.
C5_PageIndexMonotone ==
  Grouped =>
    \A k \in 1..(Len(lines) - 1) :
       pageIndexOfClientRect(lines[k + 1].clientRect)
         >= pageIndexOfClientRect(lines[k].clientRect)

(* ---------------- C6 ---------------- *)
\* C6: the lines of the returned pages, page after page in index order, are
\* exactly the lines linesOfSpans returned, in the same order.
C6_OrderPreserved ==
  Done => PagesConcatFrom(0) = lines

(* ---------------- C7 ---------------- *)
\* C7: the spans of one line all have the same page index, and a span on
\* another page than the span before it starts a new line.
C7_LinesNeverSpanPages ==
  /\ \A i, j \in 1..Len(spanLine) :
       spanLine[i] = spanLine[j] => SpanPage(i) = SpanPage(j)
  /\ \A i \in 2..Len(spanLine) :
       SpanPage(i) # SpanPage(i - 1) => spanLine[i] # spanLine[i - 1]

(* ---------------- C8 ---------------- *)
\* C8: once a span with a page index below lastPageIndex was met, the pass
\* fails: linesOfSpans returns no lines and analyzeDocument no pages.
C8_BackwardIsFatal ==
  metBackward => ~Grouped

(* ---------------- C9 ---------------- *)
RECURSIVE ConcatMembersFrom(_)
ConcatMembersFrom(k) ==
  IF k >= Len(lines) THEN <<>>
  ELSE MemberSeq(k) \o ConcatMembersFrom(k + 1)

\* C9: when linesOfSpans has returned, every span is in exactly one
\* returned line, the spans of the lines, line after line, are the input
\* in its order, and the text of a line is the words of its spans in that
\* order separated by single spaces.
C9_PartitionAndText ==
  Grouped =>
    /\ Len(spanLine) = Len(spans)
    /\ \A i \in 1..Len(spans) : spanLine[i] \in 0..(Len(lines) - 1)
    /\ ConcatMembersFrom(0) = spans
    /\ \A k \in 1..Len(lines) :
         LET ws == SpanTexts(MemberSeq(k - 1))
         IN lines[k].text = Spaced(ws, Len(ws))

\* Two spans were grouped into one returned line.
C9_Witness ==
  /\ Grouped
  /\ \E k \in 1..Len(lines) :
       /\ Cardinality(Members(k - 1)) >= 2
       /\ lines[k].text = "a b"

(* ---------------- C10 ---------------- *)
PrevLeft(i) == IF i = 1 THEN NegInf ELSE spans[i - 1].rect.left
PrevBottom(i) == IF i = 1 THEN NegInf ELSE spans[i - 1].rect.bottom
PrevLine(i) == IF i = 1 THEN 0 ELSE spanLine[i - 1]

NewLineCondition(i) ==
  \/ spans[i].rect.left <= PrevLeft(i)
  \/ spans[i].rect.top >= PrevBottom(i)
  \/ SpanPage(i) > CrossingsUpTo(i - 1)

\* C10: a span starts a new line exactly when its left is at most the left
\* of the span before it, or its top is at least the bottom of the span
\* before it, or its page index is above lastPageIndex; otherwise it joins
\* the line in progress.  lastPageIndex starts at 0 and grows by one for
\* each span whose page index is above it.
C10_NewLineCondition ==
  /\ lastPageIndex = CrossingsUpTo(Len(spanLine))
  /\ \A i \in 1..Len(spanLine) :
       /\ NewLineCondition(i) => spanLine[i] = PrevLine(i) + 1
       /\ ~NewLineCondition(i) => spanLine[i] = PrevLine(i)

\* A span with the left and the top of the span before it, on the page
\* lastPageIndex, started a new line.
C10_Witness ==
  \E i \in 2..Len(spanLine) :
     /\ spans[i].rect.left = spans[i - 1].rect.left
     /\ spans[i].rect.top = spans[i - 1].rect.top
     /\ spans[i].rect.top < spans[i - 1].rect.bottom
     /\ SpanPage(i) = CrossingsUpTo(i - 1)
     /\ spanLine[i] = spanLine[i - 1] + 1

====
